---- MODULE Spec2Model ----
(***************************************************************************)
(* Actor-critic trainers of trax/rl/actor_critic.py.                       *)
(*                                                                         *)
(* Arrays are sequences (a [batch, time] array is a sequence of rows, a    *)
(* [batch, time, depth] array a sequence of rows of sequences).  Floats    *)
(* are fixed-point integers in units of 1/Scale.  A list of weights is a   *)
(* sequence of blocks, a block is drawn from BlockVals.                    *)
(***************************************************************************)
EXTENDS Integers, Sequences, FiniteSets, TLC

VARIABLES
  cls,            \* the class of the trainer object
  self,           \* the attributes __init__ sets on the trainer object
  value_depth,    \* trailing dimension of the value model's output
  value_weights,  \* self._value_trainer.model_weights
  policy_weights, \* self._policy_trainer.model_weights
  eval_weights,   \* self._value_eval_model.weights
  pc,             \* position in train_epoch / in the derivation of one batch
  epoch,          \* train_epoch calls that have returned
  requests,       \* batches requested from policy_batches_stream this epoch
  yields,         \* batches it has yielded this epoch
  np_trajectory,  \* the trajectory slice last drawn from the task
  values_raw,     \* the value model's output for it
  values_from,    \* the weights the value model held when it computed them
  values,         \* the value estimates handed to policy_inputs
  item,           \* what policy_inputs returned (the stream yields it)
  exc,            \* the exception that escaped, if any
  loss_call,      \* the arguments of the last policy_loss call
  loss            \* its outcome

vars == <<cls, self, value_depth, value_weights, policy_weights, eval_weights,
          pc, epoch, requests, yields, np_trajectory, values_raw, values_from,
          values, item, exc, loss_call, loss>>

----------------------------------------------------------------------------
(* Bounds *)

MaxBlocks == 2

MaxEpochs == 2

MaxPolicySteps == 2

MaxLen == 2

MaxBatch == 1

BlockVals == {0, 1}

----------------------------------------------------------------------------
(* Fixed-point floats *)

\* Two decimal digits.
Scale == 10 * 10

Min(a, b) == IF a <= b THEN a ELSE b

Max(a, b) == IF a >= b THEN a ELSE b

FMul(a, b) == (a * b) \div Scale

FDiv(a, b) == (a * Scale) \div b

\* np.exp overflows to inf above ExpMaxArg and underflows to 0.0 below
\* ExpMinArg (IEEE double: exp(709.78) is the largest finite result,
\* exp(-745.13) the smallest positive one).
ExpMaxArg == 709 * Scale

ExpMinArg == -745 * Scale

FloatInf == 2 * 10^9

FloatBig == 10^9

\* e^q for q = -8 .. 8, in units of 1/Scale; entries below one unit are
\* rounded up so that a positive float stays positive.
ExpTab == <<1, 1, 1, 1, 2, 5, 14, 37, 100, 272, 739, 2009, 5460, 14841,
            40343, 109663, 298096>>

\* e^(r/Scale) for 0 <= r < Scale, by its Taylor polynomial of degree 4.
ExpFrac(r) == Scale + r + (r * r) \div (2 * Scale)
              + (r * r * r) \div (6 * Scale * Scale)
              + (r * r * r * r) \div (24 * Scale * Scale * Scale)

Exp(x) ==
  IF x < ExpMinArg THEN 0
  ELSE IF x > ExpMaxArg THEN FloatInf
  ELSE LET q == x \div Scale
           r == x % Scale
       IN  IF q < -8 THEN 1
           ELSE IF q > 8 THEN FloatBig
           ELSE Max(1, (ExpTab[q + 9] * ExpFrac(r)) \div Scale)

----------------------------------------------------------------------------
(* numpy *)

\* a[:, :-1]
DropLast(a) == [b \in DOMAIN a |-> SubSeq(a[b], 1, Len(a[b]) - 1)]

\* a[:, 1:]
DropFirst(a) == [b \in DOMAIN a |-> SubSeq(a[b], 2, Len(a[b]))]

TimeLen(a) == IF Len(a) = 0 THEN 0 ELSE Len(a[1])

\* a.shape of a [batch, time] array
Shape2(a) == <<Len(a), TimeLen(a)>>

\* a.shape of a [batch, time, depth] array
Shape3(a) == <<Len(a), TimeLen(a),
               IF Len(a) = 0 \/ Len(a[1]) = 0 THEN 0 ELSE Len(a[1][1])>>

\* np.squeeze(a, axis=2)
Squeeze2(a) == [b \in DOMAIN a |-> [t \in DOMAIN a[b] |-> a[b][t][1]]]

Sub(x, y) == [b \in DOMAIN x |-> [t \in DOMAIN x[b] |-> x[b][t] - y[b][t]]]

Add(x, y) == [b \in DOMAIN x |-> [t \in DOMAIN x[b] |-> x[b][t] + y[b][t]]]

Mul(x, y) == [b \in DOMAIN x |-> [t \in DOMAIN x[b] |-> FMul(x[b][t], y[b][t])]]

Div(x, y) == [b \in DOMAIN x |-> [t \in DOMAIN x[b] |-> FDiv(x[b][t], y[b][t])]]

ScalarMul(c, x) == [b \in DOMAIN x |-> [t \in DOMAIN x[b] |-> FMul(c, x[b][t])]]

ScalarDiv(x, c) == [b \in DOMAIN x |-> [t \in DOMAIN x[b] |-> FDiv(x[b][t], c)]]

NpExp(x) == [b \in DOMAIN x |-> [t \in DOMAIN x[b] |-> Exp(x[b][t])]]

NpMinimum(x, c) == [b \in DOMAIN x |-> [t \in DOMAIN x[b] |-> Min(x[b][t], c)]]

\* np.min(np.stack([x, y], 0), 0)
MinStacked(x, y) ==
  [b \in DOMAIN x |-> [t \in DOMAIN x[b] |-> Min(x[b][t], y[b][t])]]

\* jax.lax.clamp(lo, x, hi)
Clamp(lo, x, hi) ==
  [b \in DOMAIN x |-> [t \in DOMAIN x[b] |-> Max(lo, Min(x[b][t], hi))]]

RECURSIVE SumSeq(_)
SumSeq(s) == IF Len(s) = 0 THEN 0 ELSE s[1] + SumSeq(Tail(s))

RECURSIVE SumRows(_)
SumRows(a) == IF Len(a) = 0 THEN 0 ELSE SumSeq(a[1]) + SumRows(Tail(a))

Mean(a) == SumRows(a) \div (Len(a) * TimeLen(a))

----------------------------------------------------------------------------
(* Python values that cross a call boundary *)

PyNone == [kind |-> "none"]

PyTuple(arrs) == [kind |-> "tuple", arrays |-> arrs]

PyClass(name) == [kind |-> "class", name |-> name]

PyFloat(v) == [kind |-> "float", value |-> v]

PyRaise(name) == [kind |-> "raise", exc |-> name]

----------------------------------------------------------------------------
(* Construction *)

Classes == {"ActorCriticTrainer", "AWRTrainer",
            "AdvantageActorCriticTrainer", "PPOTrainer"}

\* self._task.gamma
TaskGamma == Scale - 1

BetaDefault == Scale

WMaxDefault == 20 * Scale

PpoEpsDefault == Scale \div 5

BetaVals == {Scale \div 2, BetaDefault}

ActorCriticTrainer_init(n, on_policy, b, l) ==
  [on_policy |-> on_policy, n_shared_layers |-> n,
   policy_batch_size |-> b, max_slice_length |-> l, task_gamma |-> TaskGamma]

AWRTrainer_init(n, b, l, beta, w_max) ==
  [on_policy |-> FALSE, n_shared_layers |-> n,
   policy_batch_size |-> b, max_slice_length |-> l, task_gamma |-> TaskGamma,
   beta |-> beta, w_max |-> w_max]

PPOTrainer_init(n, b, l, ppo_eps) ==
  [on_policy |-> TRUE, n_shared_layers |-> n,
   policy_batch_size |-> b, max_slice_length |-> l, task_gamma |-> TaskGamma,
   ppo_eps |-> ppo_eps]

\* The trainer objects a run can construct, by class.
Construct(c, n, b, l) ==
  CASE c = "AWRTrainer" ->
         {AWRTrainer_init(n, b, l, beta, WMaxDefault) : beta \in BetaVals}
    [] c = "PPOTrainer" -> {PPOTrainer_init(n, b, l, PpoEpsDefault)}
    [] OTHER -> {ActorCriticTrainer_init(n, TRUE, b, l)}

----------------------------------------------------------------------------
(* Policy inputs *)

ActorCriticTrainer_policy_inputs(obj, trajectory, vals) ==
  PyClass("NotImplementedError")

\* AWRTrainer.policy_inputs without the clip at w_max.
AWRTrainer_policy_inputs_unclipped(obj, trajectory, vals) ==
  LET rew == DropLast(trajectory.rewards)
      td_advantage ==
        Sub(Add(rew, ScalarMul(obj.task_gamma, DropFirst(vals))),
            DropLast(vals))
      awr_weights == NpExp(ScalarDiv(td_advantage, obj.beta))
  IN  PyTuple(<<DropLast(trajectory.observations),
                DropLast(trajectory.actions),
                awr_weights>>)

AWRTrainer_policy_inputs(obj, trajectory, vals) ==
  LET rew == DropLast(trajectory.rewards)
      td_advantage ==
        Sub(Add(rew, ScalarMul(obj.task_gamma, DropFirst(vals))),
            DropLast(vals))
      awr_weights ==
        NpMinimum(NpExp(ScalarDiv(td_advantage, obj.beta)), obj.w_max)
  IN  PyTuple(<<DropLast(trajectory.observations),
                DropLast(trajectory.actions),
                awr_weights>>)

AdvantageActorCriticTrainer_policy_inputs(obj, trajectory, vals) ==
  LET advantages == Sub(DropLast(trajectory.returns), DropLast(vals))
  IN  PyTuple(<<trajectory.observations, trajectory.actions, advantages>>)

\* PPOTrainer.policy_inputs taking the value of the next timestep.
PPOTrainer_policy_inputs_next_value(obj, trajectory, vals) ==
  LET advantages == Sub(DropLast(trajectory.returns), DropFirst(vals))
      old_log_probs == DropLast(trajectory.log_probs)
  IN  PyTuple(<<trajectory.observations, trajectory.actions, advantages,
                old_log_probs>>)

PPOTrainer_policy_inputs(obj, trajectory, vals) ==
  LET advantages == Sub(DropLast(trajectory.returns), DropLast(vals))
      old_log_probs == DropLast(trajectory.log_probs)
  IN  PyTuple(<<trajectory.observations, trajectory.actions, advantages,
                old_log_probs>>)

\* self.policy_inputs(trajectory, values), by the class of self
policy_inputs(c, obj, trajectory, vals) ==
  CASE c = "AWRTrainer" -> AWRTrainer_policy_inputs(obj, trajectory, vals)
    [] c = "AdvantageActorCriticTrainer" ->
         AdvantageActorCriticTrainer_policy_inputs(obj, trajectory, vals)
    [] c = "PPOTrainer" -> PPOTrainer_policy_inputs(obj, trajectory, vals)
    [] OTHER -> ActorCriticTrainer_policy_inputs(obj, trajectory, vals)

ppo_loss(obj, new_log_probs, advantages, old_log_probs) ==
  IF "old_log_probs" \notin DOMAIN obj
  THEN PyRaise("AttributeError")
  ELSE LET probs_ratio ==
             Div(NpExp(new_log_probs), NpExp(obj["old_log_probs"]))
           unclipped_objective == Mul(probs_ratio, advantages)
           clipped_objective ==
             Mul(Clamp(Scale - obj.ppo_eps, probs_ratio, Scale + obj.ppo_eps),
                 advantages)
           ppo_objective == MinStacked(unclipped_objective, clipped_objective)
       IN  PyFloat(-Mean(ppo_objective))

----------------------------------------------------------------------------
(* Trajectory slices *)

\* One timestep of a slice, with the value estimate the value model gives
\* for its observation.
StepSamples ==
  { [obs |-> 0, act |-> 0, rew |-> 0, ret |-> 0, logp |-> 0, val |-> 0],
    [obs |-> 1, act |-> 1, rew |-> Scale, ret |-> 2 * Scale, logp |-> -Scale,
     val |-> Scale],
    [obs |-> 2, act |-> 0, rew |-> -1000 * Scale, ret |-> -1000 * Scale,
     logp |-> -2 * Scale, val |-> 10 * Scale] }

TrajectoryNp(rows) ==
  [observations |-> [b \in DOMAIN rows |-> [t \in DOMAIN rows[b] |-> rows[b][t].obs]],
   actions      |-> [b \in DOMAIN rows |-> [t \in DOMAIN rows[b] |-> rows[b][t].act]],
   rewards      |-> [b \in DOMAIN rows |-> [t \in DOMAIN rows[b] |-> rows[b][t].rew]],
   returns      |-> [b \in DOMAIN rows |-> [t \in DOMAIN rows[b] |-> rows[b][t].ret]],
   log_probs    |-> [b \in DOMAIN rows |-> [t \in DOMAIN rows[b] |-> rows[b][t].logp]]]

ValuesOf(rows) ==
  [b \in DOMAIN rows |-> [t \in DOMAIN rows[b] |-> rows[b][t].val]]

\* Slices of b rows and l + 1 timesteps.
Slices(b, l) == [1..b -> [1..(l + 1) -> StepSamples]]

NoTrajectory == TrajectoryNp(<<>>)

----------------------------------------------------------------------------
(* The derivers and the PPO loss, on every slice within the bounds *)

DeriverClasses == Classes \ {"ActorCriticTrainer"}

InitDerive ==
  /\ cls \in DeriverClasses
  /\ \E b \in 1..MaxBatch, l \in 1..MaxLen :
       /\ self \in Construct(cls, 0, b, l)
       /\ \E rows \in Slices(b, l) :
            /\ np_trajectory = TrajectoryNp(rows)
            /\ values = ValuesOf(rows)
  /\ value_depth = 1
  /\ value_weights = <<>>
  /\ policy_weights = <<>>
  /\ eval_weights = <<>>
  /\ pc = "derive"
  /\ epoch = 0
  /\ requests = 0
  /\ yields = 0
  /\ values_raw = <<>>
  /\ values_from = <<>>
  /\ item = PyNone
  /\ exc = PyNone
  /\ loss_call = PyNone
  /\ loss = PyNone

CallPolicyInputs ==
  /\ pc = "derive"
  /\ item' = policy_inputs(cls, self, np_trajectory, values)
  /\ pc' = "derived"
  /\ UNCHANGED <<cls, self, value_depth, value_weights, policy_weights,
                 eval_weights, epoch, requests, yields, np_trajectory,
                 values_raw, values_from, values, exc, loss_call, loss>>

\* The log-probabilities the policy model may give: those recorded with the
\* trajectory, or each of them lowered by 1.0.
NewLogProbs(old) ==
  {old, [b \in DOMAIN old |-> [t \in DOMAIN old[b] |-> old[b][t] - Scale]]}

CallPolicyLoss ==
  /\ pc = "derived"
  /\ cls = "PPOTrainer"
  /\ \E new_log_probs \in NewLogProbs(item.arrays[4]) :
       /\ loss_call' = [new_log_probs |-> new_log_probs,
                        advantages |-> item.arrays[3],
                        old_log_probs |-> item.arrays[4]]
       /\ loss' = ppo_loss(self, new_log_probs, item.arrays[3], item.arrays[4])
  /\ pc' = "loss_done"
  /\ UNCHANGED <<cls, self, value_depth, value_weights, policy_weights,
                 eval_weights, epoch, requests, yields, np_trajectory,
                 values_raw, values_from, values, item, exc>>

NextDerive == CallPolicyInputs \/ CallPolicyLoss

SpecDerive == InitDerive /\ [][NextDerive]_vars

----------------------------------------------------------------------------
(* Weights *)

\* The lists of len blocks.
Lists(len) == [1..len -> BlockVals]

\* w[:n]
Prefix(w, n) == SubSeq(w, 1, Min(n, Len(w)))

\* The slice assignment copying one block too many.
SliceAssign_one_more(dst, src, n) ==
  Prefix(src, n + 1) \o SubSeq(dst, Min(n + 1, Len(dst)) + 1, Len(dst))

\* dst[:n] = src[:n], on a Python list
SliceAssign(dst, src, n) ==
  Prefix(src, n) \o SubSeq(dst, Min(n, Len(dst)) + 1, Len(dst))

\* train_epoch without the copy value -> policy.
CopyValueToPolicyWeights_skipped(value_w, policy_w, n) == policy_w

\* train_epoch, lines 128-132: the policy trainer's weights after the copy
CopyValueToPolicyWeights(value_w, policy_w, n) ==
  IF n > 0 THEN SliceAssign(policy_w, value_w, n) ELSE policy_w

\* train_epoch without the copy policy -> value.
CopyPolicyToValueWeights_skipped(value_w, policy_w, n) == value_w

\* train_epoch, lines 135-139: the value trainer's weights after the copy
CopyPolicyToValueWeights(value_w, policy_w, n) ==
  IF n > 0 THEN SliceAssign(value_w, policy_w, n) ELSE value_w

\* The value model left with the weights it had.
RefreshedEvalWeights_stale(eval_w, trainer_w) == eval_w

\* value_model.weights = self._value_trainer.model_weights
RefreshedEvalWeights(eval_w, trainer_w) == trainer_w

\* value_model(observations): the network is opaque; its output is some
\* function of the weights it holds and of each observation, one entry per
\* unit of its output depth.
ValueModel(w, observations, depth) ==
  [b \in DOMAIN observations |->
    [t \in DOMAIN observations[b] |->
      [d \in 1..depth |-> (SumSeq(w) + observations[b][t]) * Scale]]]

\* The assertion left out.
ShapeAsserted_off(obj, raw) == TRUE

\* shapes.assert_shape_equals(values, (batch, max_slice_length + 1, 1))
ShapeAsserted(obj, raw) ==
  Shape3(raw) = <<obj.policy_batch_size, obj.max_slice_length + 1, 1>>

\* The slices the task hands to policy_batches_stream: b rows of l + 1
\* timesteps.
TaskSlices(b, l) ==
  {[i \in 1..b |-> [t \in 1..(l + 1) |-> s]] : s \in StepSamples}

----------------------------------------------------------------------------
(* train_epoch *)

\* A trainer of one of `classes`, whose value model has an output depth in
\* `depths` and whose models have at most `blocks` blocks each.  The shared
\* prefix is a prefix of both models.
InitTrain(classes, depths, blocks) ==
  /\ cls \in classes
  /\ value_depth \in depths
  /\ \E lv \in 1..blocks, lp \in 1..blocks :
       /\ value_weights \in Lists(lv)
       /\ policy_weights \in Lists(lp)
       /\ eval_weights \in Lists(lv)
       /\ \E n \in 0..Min(lv, lp) :
            self \in Construct(cls, n, MaxBatch, MaxLen)
  /\ pc = "idle"
  /\ epoch = 0
  /\ requests = 0
  /\ yields = 0
  /\ np_trajectory = NoTrajectory
  /\ values_raw = <<>>
  /\ values_from = <<>>
  /\ values = <<>>
  /\ item = PyNone
  /\ exc = PyNone
  /\ loss_call = PyNone
  /\ loss = PyNone

\* line 126: the value trainer's epoch
ValueEpoch ==
  /\ pc = "idle"
  /\ epoch < MaxEpochs
  /\ value_weights' \in Lists(Len(value_weights))
  /\ pc' = "value_trained"
  /\ UNCHANGED <<cls, self, value_depth, policy_weights, eval_weights, epoch,
                 requests, yields, np_trajectory, values_raw, values_from,
                 values, item, exc, loss_call, loss>>

\* lines 127-132, and the call of line 133
CopyValueToPolicy ==
  /\ pc = "value_trained"
  /\ policy_weights' =
       CopyValueToPolicyWeights(value_weights, policy_weights,
                                self.n_shared_layers)
  /\ pc' = "policy_epoch"
  /\ requests' = 0
  /\ yields' = 0
  /\ UNCHANGED <<cls, self, value_depth, value_weights, eval_weights, epoch,
                 np_trajectory, values_raw, values_from, values, item, exc,
                 loss_call, loss>>

\* One step of the policy trainer's epoch (line 133): it asks
\* policy_batches_stream for a batch (lines 109-122) and trains on it.  An
\* exception of the stream ends train_epoch.  What the policy trainer does
\* with an item that is no tuple of arrays is not this file's code: it may
\* go on, or raise.
PolicyBatch ==
  /\ pc = "policy_epoch"
  /\ yields < MaxPolicySteps
  /\ requests' = requests + 1
  /\ np_trajectory' \in
       {TrajectoryNp(rows) :
          rows \in TaskSlices(self.policy_batch_size, self.max_slice_length)}
  /\ eval_weights' = RefreshedEvalWeights(eval_weights, value_weights)
  /\ values_from' = eval_weights'
  /\ values_raw' =
       ValueModel(eval_weights', np_trajectory'.observations, value_depth)
  /\ IF ~ShapeAsserted(self, values_raw')
     THEN /\ exc' = PyRaise("AssertionError")
          /\ pc' = "raised"
          /\ UNCHANGED <<values, item, yields, policy_weights>>
     ELSE /\ values' = Squeeze2(values_raw')
          /\ item' = policy_inputs(cls, self, np_trajectory', values')
          /\ yields' = yields + 1
          /\ \/ /\ policy_weights' \in Lists(Len(policy_weights))
                /\ UNCHANGED <<pc, exc>>
             \/ /\ item'.kind # "tuple"
                /\ exc' = PyRaise("TypeError")
                /\ pc' = "raised"
                /\ UNCHANGED policy_weights
  /\ UNCHANGED <<cls, self, value_depth, value_weights, epoch, loss_call, loss>>

\* line 133 returns
PolicyEpochDone ==
  /\ pc = "policy_epoch"
  /\ yields >= 1
  /\ pc' = "policy_trained"
  /\ UNCHANGED <<cls, self, value_depth, value_weights, policy_weights,
                 eval_weights, epoch, requests, yields, np_trajectory,
                 values_raw, values_from, values, item, exc, loss_call, loss>>

\* lines 134-139, and the return
CopyPolicyToValue ==
  /\ pc = "policy_trained"
  /\ value_weights' =
       CopyPolicyToValueWeights(value_weights, policy_weights,
                                self.n_shared_layers)
  /\ pc' = "idle"
  /\ epoch' = epoch + 1
  /\ UNCHANGED <<cls, self, value_depth, policy_weights, eval_weights,
                 requests, yields, np_trajectory, values_raw, values_from,
                 values, item, exc, loss_call, loss>>

Next ==
  \/ ValueEpoch
  \/ CopyValueToPolicy
  \/ PolicyBatch
  \/ PolicyEpochDone
  \/ CopyPolicyToValue

Init == InitTrain(Classes, {1, 2}, MaxBlocks)

Spec == Init /\ [][Next]_vars

----------------------------------------------------------------------------
(* Claims about train_epoch and policy_batches_stream (under Spec) *)

n_shared == self.n_shared_layers

\* C1: when a train_epoch call has returned and n_shared_layers = k > 0, with
\* both weight lists holding at least k blocks, block i of the value model
\* equals block i of the policy model for every i < k, whatever the two
\* epochs did to their own model.
C1_SharedPrefixEqualAfterEpoch ==
  (/\ pc = "idle"
   /\ epoch > 0
   /\ n_shared > 0
   /\ Len(value_weights) >= n_shared
   /\ Len(policy_weights) >= n_shared)
  => \A i \in 1..n_shared : value_weights[i] = policy_weights[i]

\* A call with one shared block has returned, and the blocks that are not
\* shared differ between the two models.
C1_Witness ==
  /\ pc = "idle"
  /\ epoch > 0
  /\ n_shared = 1
  /\ Len(value_weights) = 2
  /\ Len(policy_weights) = 2
  /\ value_weights[2] # policy_weights[2]
  /\ value_weights[1] = 1

\* C2: in a train_epoch call the steps happen in the order value epoch, copy
\* value -> policy, policy epoch, copy policy -> value, without overlap: the
\* value epoch leaves the policy weights alone and the policy epoch the value
\* weights; the policy epoch starts with the value model's shared prefix and
\* the next call starts with the policy model's shared prefix.
C2_PhasesInOrder ==
  /\ [][/\ (pc = "idle" /\ pc' # pc)
             => (pc' = "value_trained" /\ policy_weights' = policy_weights)
        /\ (pc = "value_trained" /\ pc' # pc)
             => /\ pc' = "policy_epoch"
                /\ value_weights' = value_weights
                /\ n_shared > 0
                     => Prefix(policy_weights', n_shared)
                          = Prefix(value_weights, n_shared)
        /\ pc = "policy_epoch"
             => /\ pc' \in {"policy_epoch", "policy_trained", "raised"}
                /\ value_weights' = value_weights
        /\ (pc = "policy_trained" /\ pc' # pc)
             => /\ pc' = "idle"
                /\ policy_weights' = policy_weights
                /\ n_shared > 0
                     => Prefix(value_weights', n_shared)
                          = Prefix(policy_weights, n_shared)
        /\ pc = "raised" => pc' = "raised"]_vars
  /\ [](pc = "policy_epoch" /\ requests = 0 /\ n_shared > 0
          => Prefix(policy_weights, n_shared) = Prefix(value_weights, n_shared))
  /\ [](pc = "idle" /\ epoch > 0 /\ n_shared > 0
          => Prefix(value_weights, n_shared) = Prefix(policy_weights, n_shared))

\* The policy epoch of a second call is about to start, with a shared prefix.
C2_Witness ==
  /\ pc = "policy_epoch"
  /\ requests = 0
  /\ epoch >= 1
  /\ n_shared > 0
  /\ Len(policy_weights) > n_shared
  /\ policy_weights[1] = 1

\* C3: on the base class (policy_inputs not overridden) the first request of
\* a policy batch fails: nothing is yielded and train_epoch raises.
C3_BaseClassFailsOnFirstBatch ==
  (cls = "ActorCriticTrainer" /\ value_depth = 1 /\ requests > 0)
  => (yields = 0 /\ pc = "raised")

\* C5: a value output whose shape is not [policy_batch_size, L + 1, 1] raises
\* the assertion before squeeze and policy_inputs: that request yields
\* nothing and train_epoch raises; with the right shape the values handed to
\* policy_inputs have shape [policy_batch_size, L + 1].
C5_ShapeAssertion ==
  requests > 0 =>
    IF Shape3(values_raw)
         # <<self.policy_batch_size, self.max_slice_length + 1, 1>>
    THEN /\ pc = "raised"
         /\ exc = PyRaise("AssertionError")
         /\ yields = requests - 1
         /\ requests = 1 => (item = PyNone /\ values = <<>>)
    ELSE /\ yields = requests
         /\ Shape2(values)
              = <<self.policy_batch_size, self.max_slice_length + 1>>
         /\ values = Squeeze2(values_raw)

\* The value model's output has depth 2 and the assertion has been raised.
C5_Witness ==
  /\ pc = "raised"
  /\ exc = PyRaise("AssertionError")
  /\ requests = 1
  /\ Shape3(values_raw)
       = <<self.policy_batch_size, self.max_slice_length + 1, 2>>

\* C6: every batch is computed by a value model that holds the value
\* trainer's weights as they are when the batch is requested.
C6_BatchFromCurrentValueWeights ==
  [][requests' = requests + 1
       => /\ eval_weights' = value_weights
          /\ values_from' = value_weights
          /\ values_raw' = ValueModel(value_weights,
                                      np_trajectory'.observations,
                                      value_depth)]_vars

\* A batch of a second call has been yielded, after two value epochs.
C6_Witness ==
  /\ pc = "policy_epoch"
  /\ epoch >= 1
  /\ yields >= 1
  /\ values_from = value_weights
  /\ item.kind = "tuple"

----------------------------------------------------------------------------
(* Claims about the derivers and the PPO loss (under SpecDerive) *)

L == self.max_slice_length

Derived == pc \in {"derived", "loss_done"}

\* C4: ppo_loss is a function of its three arguments; where new_log_probs
\* equals the old_log_probs it is passed, the ratio is 1 and the loss is
\* -mean(advantages).
C4_LossAtEqualLogProbs ==
  (pc = "loss_done" /\ loss_call.new_log_probs = loss_call.old_log_probs)
  => loss = PyFloat(-Mean(loss_call.advantages))

\* C7: the AWR and the PPO deriver return tuples in which every array has
\* time length L; the A2C deriver returns observations and actions of length
\* L + 1 next to an advantage of length L.
C7_AllButA2CAligned ==
  Derived =>
    /\ cls \in {"AWRTrainer", "PPOTrainer"}
         => \A i \in DOMAIN item.arrays :
              \A b \in DOMAIN item.arrays[i] : Len(item.arrays[i][b]) = L
    /\ cls = "AdvantageActorCriticTrainer"
         => \A b \in DOMAIN item.arrays[1] :
              /\ Len(item.arrays[1][b]) = L + 1
              /\ Len(item.arrays[2][b]) = L + 1
              /\ Len(item.arrays[3][b]) = L

\* td_advantage[b][t] = reward[t] + gamma * value[t + 1] - value[t]
TdAdvantage(b, t) ==
  np_trajectory.rewards[b][t] + FMul(self.task_gamma, values[b][t + 1])
    - values[b][t]

\* C8 as stated: every AWR weight is min(exp(td_advantage / beta), w_max) and
\* lies in (0, w_max].
C8_WeightsStrictlyPositive ==
  (Derived /\ cls = "AWRTrainer") =>
    \A b \in DOMAIN item.arrays[3] :
      /\ Len(item.arrays[3][b]) = L
      /\ \A t \in 1..L :
           /\ item.arrays[3][b][t]
                = Min(Exp(FDiv(TdAdvantage(b, t), self.beta)), self.w_max)
           /\ 0 < item.arrays[3][b][t]
           /\ item.arrays[3][b][t] <= self.w_max

\* C8, amended: every AWR weight is min(exp(td_advantage / beta), w_max) and
\* lies in [0, w_max]; it is positive unless the exponential underflows.
C8_WeightsClipped ==
  (Derived /\ cls = "AWRTrainer") =>
    \A b \in DOMAIN item.arrays[3] :
      /\ Len(item.arrays[3][b]) = L
      /\ \A t \in 1..L :
           /\ item.arrays[3][b][t]
                = Min(Exp(FDiv(TdAdvantage(b, t), self.beta)), self.w_max)
           /\ 0 <= item.arrays[3][b][t]
           /\ item.arrays[3][b][t] <= self.w_max
           /\ FDiv(TdAdvantage(b, t), self.beta) >= ExpMinArg
                => 0 < item.arrays[3][b][t]

\* The AWR deriver has returned, for one row, a weight of 0 (the exponential
\* underflowed) and a weight at the clip.
C8_Witness ==
  /\ Derived
  /\ cls = "AWRTrainer"
  /\ \E b \in DOMAIN item.arrays[3] :
       \E t1, t2 \in 1..L :
         /\ item.arrays[3][b][t1] = self.w_max
         /\ item.arrays[3][b][t2] = 0

\* C9: for the A2C and the PPO deriver, advantage[t] = return[t] - value[t]
\* for t in 0 .. L-1, the last timestep entering no advantage, and the PPO
\* deriver's old_log_probs are the recorded log_probs of the same timesteps.
C9_AdvantageIsReturnMinusValue ==
  (Derived /\ cls \in {"AdvantageActorCriticTrainer", "PPOTrainer"}) =>
    /\ Len(item.arrays[3]) = self.policy_batch_size
    /\ \A b \in 1..self.policy_batch_size :
         /\ Len(item.arrays[3][b]) = L
         /\ \A t \in 1..L :
              item.arrays[3][b][t]
                = np_trajectory.returns[b][t] - values[b][t]
    /\ cls = "PPOTrainer"
         => \A b \in 1..self.policy_batch_size :
              /\ Len(item.arrays[4][b]) = L
              /\ \A t \in 1..L :
                   item.arrays[4][b][t] = np_trajectory.log_probs[b][t]

\* The PPO deriver has returned advantages that are not all 0, for a slice
\* whose last timestep has a return that differs from its value estimate.
C9_Witness ==
  /\ Derived
  /\ cls = "PPOTrainer"
  /\ L = 2
  /\ item.arrays[3][1][1] # 0
  /\ item.arrays[3][1][1] # item.arrays[3][1][2]
  /\ np_trajectory.returns[1][L + 1] # values[1][L + 1]
  /\ values[1][1] # values[1][2]

====
